---- MODULE Spec2Model ----
(***************************************************************************)
(* The dispatch controller of the bulk sender (components/BulkSender.jsx)  *)
(* with the pacing helpers of utils/whatsappUtils.js.                      *)
(*                                                                         *)
(* JavaScript runs every handler to completion: a step of the model is one *)
(* click handler, or the continuation of one handleStart invocation from   *)
(* the timer it awaits up to its next await (or to its return).  React     *)
(* state (sending, paused, progress, log) is re-rendered between two such  *)
(* steps, so a click handler reads the current values, while a running     *)
(* handleStart keeps the values of the render it was created in.           *)
(* Timestamps and toasts are left out: nothing in the controller reads     *)
(* them.                                                                   *)
(***************************************************************************)
EXTENDS Integers, Sequences, FiniteSets, TLC

\* ------------------------------------------------------------- bounds
MaxContacts == 3      \* contact and message lists of 0..MaxContacts entries
MaxClicks == 4        \* clicks on Start (when enabled), Pause/Resume and Stop
MaxFaults == 1        \* transport calls that return null or throw (Spec)
MaxRun == 16          \* longest run of digits in a phone number tried (SpecPhone)
MaxRows == 3          \* pasted lines, table rows or saved records (SpecIngest)
MaxPieces == 3        \* pieces a template is put together from (SpecTemplate)
MaxFormat == 2        \* records of a list to be formatted (SpecFormat)
MaxColumns == 3       \* columns of a header row (SpecHeaders)
MaxSaved == 3         \* contact lists in the store (SpecStorage)
BatchContacts == 25   \* length of the lists of the long batch (SpecBatch)
BatchFaults == 1      \* transport calls that return null or throw (SpecBatch)
LogContacts == 51     \* length of the lists of the batch that fills the log (SpecLog)
ResumeContacts == 201 \* length of the list stopped before its last contact (SpecResume)

\* ------------------------------------------------- program constants
LogKeep == 99             \* prev.slice(0, 99)
ReportLogMax == 50        \* log.slice(0, 50)
MinDelay == 5000          \* getRandomDelay(5000, 15000)
MaxDelay == 15000
MinCooldown == 30000      \* getRandomDelay(30000, 60000)
MaxCooldown == 60000
CooldownInterval == 20    \* cooldownInterval = 20
PollDelay == 500          \* await delay(500)
TickDelay == 1000         \* await delay(1000)
MinDigits == 7            \* digitsOnly.length < 7
MaxDigits == 15           \* digitsOnly.length > 15

VARIABLES
  contacts,     \* prop: the contacts, each given by its phone
  messages,     \* prop: the rendered messages [phone, message]
  sending,      \* useState(false)
  paused,       \* useState(false)
  progress,     \* useState({sent, failed, pending, total})
  log,          \* useState([]), newest first
  sendingRef,   \* useRef(false)
  pausedRef,    \* useRef(false)
  reports,      \* localStorage 'bulkWhatsApp_reports'
  loops,        \* the handleStart invocations: locals and await position
  nLoops,       \* how many handleStart invocations got past the guard
  calls,        \* history: the calls of openWhatsAppWeb, oldest first
  cooldowns,    \* history: the cooldown delays inserted, oldest first
  storeFailed,  \* history: a report could not be stored
  ignored,      \* history: the disabled Start button was clicked
  clicks,       \* history: clicks on Start (when enabled), Pause/Resume and Stop
  faultsLeft,   \* environment: transport faults that may still happen
  randoms,      \* environment: the values Math.random() takes, in hundredths
  savedLists,   \* localStorage 'bulkWhatsApp_contacts'
  given,        \* utils: the arguments a function of utils/ is called with
  result        \* utils: what the call returned

\* the variables of the dispatch controller
controller == <<contacts, messages, sending, paused, progress, log, sendingRef,
                pausedRef, reports, loops, nLoops, calls, cooldowns, storeFailed,
                ignored, clicks, faultsLeft, randoms>>

vars == <<controller, savedLists, given, result>>

SYSTEM == "SYSTEM"

Min(a, b) == IF a < b THEN a ELSE b

\* Math.round(x / 1000) for x >= 0
RoundSeconds(ms) == (ms + 500) \div 1000

\* contacts[i].phone of the i-th contact (0-based)
Phone(i) == ToString(i)

ContactList(n) == [k \in 1..n |-> Phone(k - 1)]

MessageList(n) == [k \in 1..n |-> [phone |-> Phone(k - 1), message |-> <<"Hi", k - 1>>]]

\* The inputs of one step.  window.open gives a window ("ok"), null ("fail",
\* popup blocked) or an exception ("throw"); a step ends at the first call that
\* does not throw, so the next transport calls throw `throws` times and then
\* end as `final`; `rnd` is Math.random(); `storeOk` says whether
\* localStorage takes the report.
Inputs(maxThrows) ==
  [throws : 0..maxThrows, final : {"ok", "fail"}, rnd : randoms, storeOk : BOOLEAN]

\* the one input of a step that reads none
NoInput == [throws |-> 0, final |-> "ok", rnd |-> 0, storeOk |-> TRUE]

\* ------------------------------------------------------ whatsappUtils
getRandomDelay(min, max, rnd) == ((rnd * (max - min + 1)) \div 100) + min

getCooldownDelay(messageCount, rnd) ==
  IF messageCount > 0 /\ messageCount % CooldownInterval = 0
  THEN getRandomDelay(MinCooldown, MaxCooldown, rnd)
  ELSE 0

\* delay(ms): the invocation waits at `pc` for a timer due in ms
delay(m, pc, ms) == [m EXCEPT !.L.pc = pc, !.L.due = ms]

\* ---------------------------------------------------------- component
InitialProgress(n) == [sent |-> 0, failed |-> 0, pending |-> n, total |-> n]

NoLoop ==
  [id |-> 0, pc |-> "none", i |-> 0, sent |-> 0, failed |-> 0, s |-> 0,
   due |-> 0, startIndex |-> 0, logSnap |-> <<>>, stopped |-> FALSE, thrown |-> 0,
   pacings |-> 0]

\* The state a handler works on: the component's state and refs, the store,
\* the histories, and the locals L of the handleStart invocation that runs.
Machine(L) ==
  [sending |-> sending, paused |-> paused, progress |-> progress, log |-> log,
   sendingRef |-> sendingRef, pausedRef |-> pausedRef, reports |-> reports,
   calls |-> calls, cooldowns |-> cooldowns, storeFailed |-> storeFailed,
   faultsLeft |-> faultsLeft, L |-> L]

\* a variant that keeps one entry more of the previous log
addLog_keepOneMore(m, phone, status, message) ==
  [m EXCEPT !.log = <<[phone |-> phone, status |-> status, message |-> message]>>
                    \o SubSeq(@, 1, Min(Len(@), LogKeep + 1))]

addLog(m, phone, status, message) ==
  [m EXCEPT !.log = <<[phone |-> phone, status |-> status, message |-> message]>>
                    \o SubSeq(@, 1, Min(Len(@), LogKeep))]

\* a variant that leaves the failures out of pending
setProgress_sentOnly(m) ==
  [m EXCEPT !.progress = [sent |-> m.L.sent, failed |-> m.L.failed,
                          pending |-> Len(contacts) - m.L.sent,
                          total |-> Len(contacts)]]

setProgress(m) ==
  [m EXCEPT !.progress = [sent |-> m.L.sent, failed |-> m.L.failed,
                          pending |-> Len(contacts) - m.L.sent - m.L.failed,
                          total |-> Len(contacts)]]

progressPercent(p) ==
  IF p.total > 0 THEN (200 * (p.sent + p.failed) + p.total) \div (2 * p.total) ELSE 0

\* a variant that restarts at the first contact
startIndex_zero(p) == 0

startIndex(p) == p.sent + p.failed

finishSending(m, in) ==
  LET report == [totalContacts |-> Len(contacts), sent |-> m.L.sent, failed |-> m.L.failed,
                 log |-> SubSeq(m.L.logSnap, 1, Min(Len(m.L.logSnap), ReportLogMax))]
      m1 == IF in.storeOk
            THEN [m EXCEPT !.reports = Append(@, report)]
            ELSE [m EXCEPT !.storeFailed = TRUE]
      m2 == [m1 EXCEPT !.sending = FALSE, !.sendingRef = FALSE, !.L.pc = "done"]
  IN IF m.L.sent + m.L.failed = Len(contacts)
     THEN addLog(m2, SYSTEM, "info", <<"Batch complete", m.L.sent, m.L.failed>>)
     ELSE m2

\* what the next call of openWhatsAppWeb does
Outcome(m, in) ==
  IF m.faultsLeft = 0 THEN "ok"
  ELSE IF m.L.thrown < in.throws THEN "throw"
  ELSE in.final

\* a variant that hands every contact the message of the first
openWhatsAppWeb_firstMessage(m, in) ==
  LET o == Outcome(m, in)
  IN [m EXCEPT !.calls = Append(@, [loop |-> m.L.id, index |-> m.L.i,
                                    phone |-> contacts[m.L.i + 1],
                                    message |-> messages[1].message,
                                    outcome |-> o, afterStop |-> m.L.stopped,
                                    pacings |-> m.L.pacings,
                                    logged |-> m.log[1]]),
               !.faultsLeft = IF o = "ok" THEN @ ELSE @ - 1,
               !.L.thrown = IF o = "throw" THEN @ + 1 ELSE @]

openWhatsAppWeb(m, in) ==
  LET o == Outcome(m, in)
  IN [m EXCEPT !.calls = Append(@, [loop |-> m.L.id, index |-> m.L.i,
                                    phone |-> contacts[m.L.i + 1],
                                    message |-> messages[m.L.i + 1].message,
                                    outcome |-> o, afterStop |-> m.L.stopped,
                                    pacings |-> m.L.pacings,
                                    logged |-> m.log[1]]),
               !.faultsLeft = IF o = "ok" THEN @ ELSE @ - 1,
               !.L.thrown = IF o = "throw" THEN @ + 1 ELSE @]

RECURSIVE forLoop(_, _)

\* line 65, i++
nextContact(m, in) == forLoop([m EXCEPT !.L.i = @ + 1], in)

\* a variant in which a failed attempt ends the run
catch_abort(m, message, in) ==
  LET m1 == [m EXCEPT !.L.failed = @ + 1]
      m2 == addLog(m1, contacts[m.L.i + 1], "failed", message)
  IN finishSending(setProgress(m2), in)

\* lines 131-141
catch(m, message, in) ==
  LET m1 == [m EXCEPT !.L.failed = @ + 1]
      m2 == addLog(m1, contacts[m.L.i + 1], "failed", message)
  IN nextContact(setProgress(m2), in)

\* lines 123-129, after the countdown
afterCountdown(m, in) ==
  IF ~m.sendingRef THEN finishSending(m, in)
  ELSE LET cooldown == getCooldownDelay(m.L.sent, in.rnd)
       IN IF cooldown > 0
          THEN delay([addLog(m, SYSTEM, "info", <<"Cooling down", RoundSeconds(cooldown)>>)
                        EXCEPT !.cooldowns = Append(@, [loop |-> m.L.id, index |-> m.L.i,
                                                        sent |-> m.L.sent])],
                     "cooldown", cooldown)
          ELSE nextContact(m, in)

\* lines 115-119: the countdown, up to its next await delay(1000)
countdown(m, in) ==
  IF m.L.s > 0 /\ m.sendingRef
  THEN delay(m, "countdown", TickDelay)
  ELSE afterCountdown(m, in)

\* lines 79-129: the attempt of contact i
attempt(m, in) ==
  LET phone == contacts[m.L.i + 1]
      m1 == addLog(m, phone, "sending", <<"Preparing message...">>)
  IN IF m.L.i + 1 > Len(messages)
     THEN catch(m1, <<"TypeError">>, in)          \* messages[i] is undefined
     ELSE LET m2 == openWhatsAppWeb(m1, in)
              o == Outcome(m1, in)
          IN IF o = "throw" THEN catch(m2, <<"Error">>, in)
             ELSE LET m3 == IF o = "ok"
                            THEN addLog([m2 EXCEPT !.L.sent = @ + 1], phone, "sent",
                                        <<"Opened in WhatsApp Web">>)
                            ELSE addLog([m2 EXCEPT !.L.failed = @ + 1], phone, "failed",
                                        <<"Popup blocked or failed to open">>)
                      m4 == setProgress(m3)
                  IN IF m.L.i < Len(contacts) - 1
                     THEN countdown([m4 EXCEPT !.L.s =
                                       RoundSeconds(getRandomDelay(MinDelay, MaxDelay, in.rnd)),
                                     !.L.pacings = @ + 1], in)
                     ELSE nextContact(m4, in)

\* a variant that does not look at the pause flag
pausePoll_unheeded(m, in) ==
  IF ~m.sendingRef THEN finishSending(m, in)
  ELSE attempt(m, in)

\* lines 72-77, from the test of the while on
pausePoll(m, in) ==
  IF m.pausedRef /\ m.sendingRef THEN delay(m, "pausePoll", PollDelay)
  ELSE IF ~m.sendingRef THEN finishSending(m, in)
  ELSE attempt(m, in)

\* lines 65-70 and on: the for loop from its test, up to the next await
forLoop(m, in) ==
  IF m.L.i >= Len(contacts) THEN finishSending(m, in)
  ELSE IF ~m.sendingRef
  THEN finishSending(addLog(m, SYSTEM, "info", <<"Sending stopped by user">>), in)
  ELSE pausePoll(m, in)

\* lines 44-65: handleStart up to its first await
handleStart(m, id, in) ==
  IF Len(contacts) = 0 \/ Len(messages) = 0 THEN m
  ELSE LET m1 == [m EXCEPT !.sending = TRUE, !.sendingRef = TRUE, !.pausedRef = FALSE]
           m2 == addLog(m1, SYSTEM, "info", <<"Starting bulk send", Len(contacts)>>)
           L == [NoLoop EXCEPT !.id = id, !.i = startIndex(m.progress),
                               !.sent = m.progress.sent, !.failed = m.progress.failed,
                               !.startIndex = startIndex(m.progress),
                               !.logSnap = m.log]
       IN forLoop([m2 EXCEPT !.L = L], in)

\* a variant whose countdown does not count down
resume_noCount(m, in) ==
  CASE m.L.pc = "pausePoll" -> pausePoll(m, in)
    [] m.L.pc = "countdown" -> countdown(m, in)
    [] m.L.pc = "cooldown" -> nextContact(m, in)

\* the continuation of a handleStart invocation when the timer it awaits fires
resume(m, in) ==
  CASE m.L.pc = "pausePoll" -> pausePoll(m, in)
    [] m.L.pc = "countdown" -> countdown([m EXCEPT !.L.s = @ - 1], in)
    [] m.L.pc = "cooldown" -> nextContact(m, in)

handlePause(m) ==
  LET m1 == [m EXCEPT !.paused = ~m.paused, !.pausedRef = ~m.paused]
  IN IF ~m.paused
     THEN addLog(m1, SYSTEM, "info", <<"Sending paused by user">>)
     ELSE addLog(m1, SYSTEM, "info", <<"Resuming...">>)

\* a variant that clears the refs and leaves the sending state to the loop
handleStop_refsOnly(m) ==
  [m EXCEPT !.sendingRef = FALSE, !.pausedRef = FALSE, !.paused = FALSE]

handleStop(m) ==
  [m EXCEPT !.sending = FALSE, !.sendingRef = FALSE, !.pausedRef = FALSE, !.paused = FALSE]

\* the Start button: rendered when not sending, disabled at 100 %
StartRendered == ~sending

\* a variant that never disables the button
StartDisabled_never == FALSE

StartDisabled == progressPercent(progress) = 100

Waiting(L) == L.pc \in {"pausePoll", "countdown", "cooldown"}

\* A continuation that only goes back to the await it came from reads no input;
\* any other may make transport calls for the contacts from index i on.
InputsOf(L, i) ==
  IF \/ L.pc = "countdown" /\ L.s > 1 /\ sendingRef
     \/ L.pc = "pausePoll" /\ pausedRef /\ sendingRef
  THEN {NoInput}
  ELSE IF faultsLeft = 0
  THEN {in \in Inputs(0) : in.final = "ok"}
  ELSE Inputs(Min(faultsLeft, Len(contacts) - i))

\* ------------------------------------------------------------ actions
Commit(m) ==
  /\ sending' = m.sending
  /\ paused' = m.paused
  /\ progress' = m.progress
  /\ log' = m.log
  /\ sendingRef' = m.sendingRef
  /\ pausedRef' = m.pausedRef
  /\ reports' = m.reports
  /\ calls' = m.calls
  /\ cooldowns' = m.cooldowns
  /\ storeFailed' = m.storeFailed
  /\ faultsLeft' = m.faultsLeft

ClickStartDisabled ==
  /\ StartRendered
  /\ StartDisabled
  /\ ignored' = TRUE
  /\ UNCHANGED <<contacts, messages, sending, paused, progress, log, sendingRef,
                 pausedRef, reports, loops, nLoops, calls, cooldowns, storeFailed,
                 clicks, faultsLeft, randoms, savedLists, given, result>>

ClickStart ==
  /\ StartRendered
  /\ ~StartDisabled
  /\ clicks < MaxClicks
  /\ \E in \in InputsOf(NoLoop, startIndex(progress)) :
       LET m == handleStart(Machine(NoLoop), nLoops + 1, in)
       IN /\ Commit(m)
          /\ IF m.L.pc = "none"
             THEN UNCHANGED <<loops, nLoops>>
             ELSE /\ loops' = [loops EXCEPT ![nLoops + 1] = [m.L EXCEPT !.thrown = 0]]
                  /\ nLoops' = nLoops + 1
  /\ clicks' = clicks + 1
  /\ UNCHANGED <<contacts, messages, randoms, ignored,
               savedLists, given, result>>

ClickPause ==
  /\ sending
  /\ clicks < MaxClicks
  /\ Commit(handlePause(Machine(NoLoop)))
  /\ clicks' = clicks + 1
  /\ UNCHANGED <<contacts, messages, randoms, loops, nLoops, ignored,
               savedLists, given, result>>

ClickStop ==
  /\ sending
  /\ clicks < MaxClicks
  /\ clicks' = clicks + 1
  /\ Commit(handleStop(Machine(NoLoop)))
  /\ loops' = [l \in DOMAIN loops |->
                 IF Waiting(loops[l]) THEN [loops[l] EXCEPT !.stopped = TRUE] ELSE loops[l]]
  /\ UNCHANGED <<contacts, messages, randoms, nLoops, ignored,
               savedLists, given, result>>

\* Timers fire in the order they fall due, two due together in either order;
\* the time that passes is taken off the other timers.
TimerFires(l) ==
  /\ Waiting(loops[l])
  /\ \A k \in DOMAIN loops : Waiting(loops[k]) => loops[l].due <= loops[k].due
  /\ \E in \in InputsOf(loops[l], loops[l].i) :
       LET m == resume(Machine(loops[l]), in)
       IN /\ Commit(m)
          /\ loops' = [k \in DOMAIN loops |->
                         IF k = l THEN [m.L EXCEPT !.thrown = 0]
                         ELSE IF Waiting(loops[k])
                         THEN [loops[k] EXCEPT !.due = @ - loops[l].due]
                         ELSE loops[k]]
  /\ UNCHANGED <<contacts, messages, randoms, nLoops, ignored, clicks,
               savedLists, given, result>>

\* no call of a function of utils/ is under study
Nothing == <<>>

\* localStorage.getItem('bulkWhatsApp_contacts'): null, a text that JSON.parse
\* rejects, or the text of an array (JSON.stringify of it)
NoItem == [kind |-> "null", value |-> <<>>]

CorruptItem == [kind |-> "corrupt", value |-> <<>>]

stringify(saved) == [kind |-> "array", value |-> saved]

\* JSON.parse(item || '[]') where it does not throw
parse(item) == IF item.kind = "null" THEN <<>> ELSE item.value

\* the component as mounted with n contacts and k messages
Mount(n, k, faults, rnds) ==
  /\ contacts = ContactList(n)
  /\ messages = MessageList(k)
  /\ sending = FALSE
  /\ paused = FALSE
  /\ progress = InitialProgress(n)
  /\ log = <<>>
  /\ sendingRef = FALSE
  /\ pausedRef = FALSE
  /\ reports = <<>>
  /\ loops = [l \in 1..MaxClicks |-> NoLoop]
  /\ nLoops = 0
  /\ calls = <<>>
  /\ cooldowns = <<>>
  /\ storeFailed = FALSE
  /\ ignored = FALSE
  /\ clicks = 0
  /\ faultsLeft = faults
  /\ randoms = rnds

InitWith(n, k, faults, rnds) ==
  /\ Mount(n, k, faults, rnds)
  /\ savedLists = NoItem
  /\ given = Nothing
  /\ result = Nothing

\* the lengths of the message list tried with n contacts: none, one, as many
MessageLengths(n) == {0, 1, n}

Init == \E n \in 0..MaxContacts : \E k \in MessageLengths(n) : InitWith(n, k, MaxFaults, {0})

Next ==
  \/ ClickStart
  \/ ClickStartDisabled
  \/ ClickPause
  \/ ClickStop
  \/ \E l \in 1..MaxClicks : TimerFires(l)

Spec == Init /\ [][Next]_vars

\* The long batch: equal lists of BatchContacts entries, started once and left
\* to run.
InitBatch == InitWith(BatchContacts, BatchContacts, BatchFaults, {0, 5})

BatchStart == nLoops = 0 /\ ClickStart

BatchTimer == TimerFires(1)

NextBatch == BatchStart \/ BatchTimer

SpecBatch == InitBatch /\ [][NextBatch]_vars

\* The run that is left to finish: Stop is never clicked, Pause is clicked only
\* when a click is left for Resume, a pause is followed by a resume, and the
\* event loop fires every timer that is due.
LivePause == ~paused /\ clicks + 1 < MaxClicks /\ ClickPause

LiveResume == paused /\ ClickPause

LiveTimer == \E l \in 1..MaxClicks : TimerFires(l)

NextLive == ClickStart \/ LivePause \/ LiveResume \/ LiveTimer

SpecLive ==
  Init /\ [][NextLive]_vars /\ WF_vars(LiveTimer) /\ WF_vars(LiveResume)

\* A batch long enough to fill the log: every open succeeds.
InitLog == InitWith(LogContacts, LogContacts, 0, {0})

SpecLog == InitLog /\ [][NextBatch]_vars

\* The long batch with a Stop button: started once, stopped at any point.
BatchStop == ClickStop

NextBatchStop == BatchStart \/ BatchTimer \/ BatchStop

SpecBatchStop == InitBatch /\ [][NextBatchStop]_vars

\* A list long enough for the rounded percentage to reach 100 before the last
\* contact: started once, stopped at any point.
InitResume == InitWith(ResumeContacts, ResumeContacts, 0, {0})

SpecResume == InitResume /\ [][NextBatchStop]_vars

\* --------------------------------------------------------- phoneUtils
\* A JavaScript string is the sequence of its characters; null and undefined
\* are one-element sequences that no string equals.
Null == <<"null">>

Undefined == <<"undefined">>

\* !v
Falsy(v) == v \in {<<>>, Null, Undefined}

Digits == {"0", "1", "2", "3", "4", "5", "6", "7", "8", "9"}

COUNTRY_CODES ==
  << <<"+", "2", "5", "4">>, <<"+", "2", "5", "6">>, <<"+", "2", "5", "5">>,
     <<"+", "2", "3", "3">>, <<"+", "2", "3", "4">>, <<"+", "2", "7">>,
     <<"+", "1">>, <<"+", "4", "4">> >>

\* s.startsWith(prefix)
startsWith(s, prefix) == Len(s) >= Len(prefix) /\ SubSeq(s, 1, Len(prefix)) = prefix

\* COUNTRY_CODES.some(code => s.startsWith(code))
hasValidCode(s) == \E c \in DOMAIN COUNTRY_CODES : startsWith(s, COUNTRY_CODES[c])

\* s.replace(/\+/g, '')
withoutPlus(s) == SelectSeq(s, LAMBDA c : c # "+")

normalizePhone(phone, defaultCountryCode) ==
  IF Falsy(phone) THEN Null
  ELSE LET cleaned == SelectSeq(phone, LAMBDA c : c \in Digits \/ c = "+")
           withCode == IF startsWith(cleaned, <<"+">>) THEN cleaned
                       ELSE IF startsWith(cleaned, <<"0">>)
                       THEN defaultCountryCode \o Tail(cleaned)
                       ELSE defaultCountryCode \o cleaned
           digitsOnly == withoutPlus(withCode)
       IN IF startsWith(cleaned, <<"+">>) /\ ~hasValidCode(cleaned) THEN Null
          ELSE IF Len(digitsOnly) < MinDigits \/ Len(digitsOnly) > MaxDigits THEN Null
          ELSE withCode

validatePhone(phone) ==
  IF Falsy(phone) THEN FALSE
  ELSE IF ~hasValidCode(phone) THEN FALSE
  ELSE LET digitsOnly == withoutPlus(phone)
       IN IF digitsOnly = <<>> \/ \E j \in DOMAIN digitsOnly : digitsOnly[j] \notin Digits
          THEN FALSE
          ELSE Len(digitsOnly) >= MinDigits /\ Len(digitsOnly) <= MaxDigits

\* The phone numbers tried: a start, then what a user may type in the middle,
\* then a run of digits.
Run(n) == [k \in 1..n |-> ToString((k + 6) % 10)]

Starts ==
  { <<>>, <<"0">>, <<"0", "0">>, <<"+">>, <<"+", "+">>, <<" ", "+">>, <<"(", "0">>,
    <<"+", "9", "9">>, <<"2", "5", "6">> }
    \cup {COUNTRY_CODES[c] : c \in DOMAIN COUNTRY_CODES}

Middles == { <<>>, <<" ">>, <<"-">>, <<"+">>, <<"a">>, <<"0">>, <<")", " ">> }

RawPhones ==
  { s \o mid \o Run(n) : s \in Starts, mid \in Middles, n \in 0..MaxRun }
    \cup { <<"a", "b", "c">>, <<"0", "7", "1", "2", "3", "4", "5", "6", "7", "8">> }

InitPhone ==
  /\ Mount(0, 0, 0, {0})
  /\ savedLists = NoItem
  /\ given \in [phone : RawPhones, defaultCountryCode : {COUNTRY_CODES[2], COUNTRY_CODES[7]}]
  /\ result = Nothing

CallNormalizePhone ==
  /\ result = Nothing
  /\ result' = [of |-> "normalizePhone",
                 value |-> normalizePhone(given.phone, given.defaultCountryCode)]
  /\ UNCHANGED <<controller, savedLists, given>>

CallValidatePhone ==
  /\ result = Nothing
  /\ result' = [of |-> "validatePhone", value |-> validatePhone(given.phone)]
  /\ UNCHANGED <<controller, savedLists, given>>

NextPhone == CallNormalizePhone \/ CallValidatePhone

SpecPhone == InitPhone /\ [][NextPhone]_vars

\* ------------------------------------- contactUtils and the page
\* A contact (and a table row as the mapping sees it) is a function from its
\* keys to strings; contact.key is undefined for a key it does not have.
Get(contact, key) == IF key \in DOMAIN contact THEN contact[key] ELSE Undefined

\* a || b
Or(a, b) == IF Falsy(a) THEN b ELSE a

\* the default value of the parameter defaultCountryCode: '+256'
DefaultCountryCode == COUNTRY_CODES[2]

\* line.trim()
trim(line) ==
  LET inked == {j \in DOMAIN line : line[j] # " "}
  IN IF inked = {} THEN <<>>
     ELSE SubSeq(line, CHOOSE j \in inked : \A k \in inked : j <= k,
                       CHOOSE j \in inked : \A k \in inked : j >= k)

RECURSIVE normalizeAll(_)

\* the phones of `lines` that normalize, normalized
normalizeAll(lines) ==
  IF lines = <<>> THEN <<>>
  ELSE LET normalized == normalizePhone(Head(lines), DefaultCountryCode)
       IN (IF Falsy(normalized) THEN <<>> ELSE <<normalized>>) \o normalizeAll(Tail(lines))

\* text is given by its lines: text.split('\n')
extractPhonesFromText(text) ==
  normalizeAll(SelectSeq([j \in DOMAIN text |-> trim(text[j])], LAMBDA line : line # <<>>))

\* key.replace(/\s+/g, '_').toLowerCase() on the column names of the tables tried
safeKey(key) ==
  CASE key = "Tel" -> "tel"
    [] key = "Full Name" -> "full_name"
    [] key = "Phone" -> "phone"
    [] OTHER -> key

\* row[column]; a row is the sequence of its cells in column order
cell(row, column) ==
  IF \E j \in DOMAIN row : row[j].column = column
  THEN row[CHOOSE j \in DOMAIN row : row[j].column = column].value
  ELSE Undefined

\* lines 124-129: the fields the mapping names
mapFields(row, headerMapping) ==
  [targetField \in {t \in DOMAIN headerMapping :
                      headerMapping[t] # "" /\ cell(row, headerMapping[t]) # Undefined}
     |-> cell(row, headerMapping[targetField])]

RECURSIVE copyUnmapped(_, _, _)

\* lines 133-140: the other columns, under their safe keys
copyUnmapped(contact, cells, headerMapping) ==
  IF cells = <<>> THEN contact
  ELSE LET key == Head(cells).column
           isMapped == \E t \in DOMAIN headerMapping : headerMapping[t] = key
       IN copyUnmapped(IF isMapped THEN contact
                       ELSE (safeKey(key) :> Head(cells).value) @@ contact,
                       Tail(cells), headerMapping)

\* lines 120-156: the contacts one row gives, none or one
mergeRow(row, headerMapping) ==
  LET contact == copyUnmapped(mapFields(row, headerMapping), row, headerMapping)
      normalized == normalizePhone(Get(contact, "phone"), DefaultCountryCode)
  IN IF ~Falsy(Get(contact, "phone")) /\ ~Falsy(normalized) /\ validatePhone(normalized)
     THEN <<("phone" :> normalized) @@ contact>>
     ELSE <<>>

RECURSIVE mergeRows(_, _)

mergeRows(csvData, headerMapping) ==
  IF csvData = <<>> THEN <<>>
  ELSE mergeRow(Head(csvData), headerMapping) \o mergeRows(Tail(csvData), headerMapping)

mergeContactData(phones, csvData, headerMapping) ==
  IF phones # <<>> /\ csvData = <<>>
  THEN LET normalized == normalizeAll(phones)
       IN [j \in DOMAIN normalized |->
             [phone |-> normalized[j], name |-> <<>>, first_name |-> <<>>,
              last_name |-> <<>>, email |-> <<>>, location |-> <<>>]]
  ELSE mergeRows(csvData, headerMapping)

RECURSIVE dedupeFrom(_, _)

\* contacts.forEach of deduplicateContacts, with the set seen
dedupeFrom(list, seen) ==
  IF list = <<>> THEN <<>>
  ELSE LET phone == Get(Head(list), "phone")
       IN IF ~Falsy(phone) /\ phone \notin seen
          THEN <<Head(list)>> \o dedupeFrom(Tail(list), seen \cup {phone})
          ELSE dedupeFrom(Tail(list), seen)

deduplicateContacts(list) == dedupeFrom(list, {})

hasValidPhone(contact) ==
  ~Falsy(Get(contact, "phone")) /\ validatePhone(Get(contact, "phone"))

\* a variant that takes every contact as valid
validateContacts_all(list) == [valid |-> list, invalid |-> <<>>]

\* a variant that forgets the contacts it rejects
validateContacts_silent(list) == [valid |-> SelectSeq(list, hasValidPhone), invalid |-> <<>>]

validateContacts(list) ==
  [valid |-> SelectSeq(list, hasValidPhone),
   invalid |-> LET bad == SelectSeq(list, LAMBDA c : ~hasValidPhone(c))
               IN [j \in DOMAIN bad |->
                     ("error" :> <<"Invalid or missing phone number">>) @@ bad[j]]]

\* name.split(' ')[0]
firstWord(name) ==
  IF \E j \in DOMAIN name : name[j] = " "
  THEN SubSeq(name, 1, (CHOOSE j \in DOMAIN name :
                          name[j] = " " /\ \A k \in 1..(j - 1) : name[k] # " ") - 1)
  ELSE name

\* name.split(' ').slice(1).join(' ')
restWords(name) == SubSeq(name, Len(firstWord(name)) + 2, Len(name))

formatContact(contact) ==
  LET name == Get(contact, "name")
      first_name == Or(Get(contact, "first_name"), IF Falsy(name) THEN <<>> ELSE firstWord(name))
      formatted ==
        [name |-> Or(name, Or(Get(contact, "first_name"), <<>>)),
         first_name |-> first_name,
         last_name |-> Or(Get(contact, "last_name"),
                          IF Falsy(name) THEN <<>> ELSE restWords(name)),
         email |-> Or(Get(contact, "email"), <<>>),
         location |-> Or(Get(contact, "location"), <<>>)] @@ contact
  IN IF Falsy(formatted.first_name) /\ Falsy(formatted.name)
     THEN [formatted EXCEPT !.first_name = <<"there">>]
     ELSE formatted

formatContactsForSending(list) == [j \in DOMAIN list |-> formatContact(list[j])]

\* The page's handler: what it was given, what each step made of it, and the
\* working list (contacts) the page holds afterwards, empty before.
handleContactsLoaded(loadedContacts) ==
  LET deduplicated == deduplicateContacts(loadedContacts)
      checked == validateContacts(deduplicated)
  IN [of |-> "handleContactsLoaded", loadedContacts |-> loadedContacts,
      deduplicated |-> deduplicated, valid |-> checked.valid, invalid |-> checked.invalid,
      contacts |-> IF checked.valid = <<>> THEN <<>>
                   ELSE formatContactsForSending(checked.valid)]

\* the form's handler returned before calling onContactsLoaded
NotLoaded == [of |-> "handleConfirm", contacts |-> <<>>]

handleConfirm(form) ==
  IF form.inputSource = "paste"
  THEN LET phones == extractPhonesFromText(form.textInput)
       IN IF phones = <<>> THEN NotLoaded
          ELSE handleContactsLoaded(mergeContactData(phones, <<>>, <<>>))
  ELSE IF Falsy(Get(form.headerMapping, "phone")) \/ form.headerMapping["phone"] = ""
  THEN NotLoaded
  ELSE LET merged == mergeContactData(<<>>, form.parsedData, form.headerMapping)
       IN IF merged = <<>> THEN NotLoaded ELSE handleContactsLoaded(merged)

handleLoadSavedList(list) == handleContactsLoaded(list.contacts)

\* What a function that may write the item returns: its value and the item
\* afterwards.  setItemOk: localStorage.setItem did not throw (quota).
Returned(value, item) == [value |-> value, item |-> item]

\* a variant that replaces the list saved under the same name
saveContactsToStorage_replace(item, list, name, timestamp, setItemOk) ==
  IF item.kind = "corrupt" \/ ~setItemOk THEN Returned(FALSE, item)
  ELSE Returned(TRUE,
         stringify(SelectSeq(parse(item), LAMBDA entry : entry.name # name)
                     \o <<[name |-> name, contacts |-> list, timestamp |-> timestamp,
                           count |-> Len(list)]>>))

saveContactsToStorage(item, list, name, timestamp, setItemOk) ==
  IF item.kind = "corrupt" \/ ~setItemOk THEN Returned(FALSE, item)
  ELSE Returned(TRUE,
         stringify(Append(parse(item),
                          [name |-> name, contacts |-> list, timestamp |-> timestamp,
                           count |-> Len(list)])))

loadContactsFromStorage(item) == IF item.kind = "corrupt" THEN <<>> ELSE parse(item)

\* saved.splice(index, 1)
splice(saved, index) ==
  LET start == IF index < 0 THEN (IF Len(saved) + index < 0 THEN 0 ELSE Len(saved) + index)
               ELSE Min(index, Len(saved))
  IN SubSeq(saved, 1, start) \o SubSeq(saved, start + 2, Len(saved))

deleteContactList(item, index, setItemOk) ==
  IF item.kind = "corrupt" \/ ~setItemOk THEN Returned(FALSE, item)
  ELSE Returned(TRUE, stringify(splice(parse(item), index)))

\* new Date(): the time of day of toLocaleTimeString() and toISOString()
Clock ==
  { [time |-> "10:00:00", timestamp |-> "T10:00:00.000Z"],
    [time |-> "10:00:00", timestamp |-> "T10:00:00.500Z"],
    [time |-> "10:00:01", timestamp |-> "T10:00:01.000Z"] }

\* the item after handleContactsLoaded: the page saves the working list it set
autoSave(item, loaded, now, setItemOk) ==
  IF loaded.contacts = <<>> THEN item
  ELSE saveContactsToStorage(item, loaded.contacts, "Auto-save " \o now.time,
                             now.timestamp, setItemOk).item

\* The inputs tried.  Phones: the same number written in four ways, another
\* number, a number with a '+' inside, and three that are no phone numbers.
Local == Run(7)

Plus256 == COUNTRY_CODES[2]

PhoneTexts ==
  { <<"0">> \o Local, Plus256 \o Local, <<" ">> \o Plus256 \o <<" ">> \o Local, Local,
    COUNTRY_CODES[7] \o Local, Plus256 \o <<"+">> \o Local,
    <<"a", "b", "c">>, <<"+", "9", "9">> \o Local, <<" ">> }

Names == { <<>>, <<"A", "l", " ", "B", " ", "C">> }

ListsOf(S) == UNION {[1..n -> S] : n \in 0..MaxRows}

Rows ==
  { << [column |-> "Tel", value |-> p], [column |-> "Full Name", value |-> n] >> :
      p \in PhoneTexts \ {Local, <<" ">> \o Plus256 \o <<" ">> \o Local}, n \in Names }

HeaderMappings ==
  { [phone |-> "Tel", name |-> "Full Name"], [phone |-> "Tel", name |-> ""],
    [phone |-> "", name |-> "Full Name"] }

\* what JSON.parse of the stored lists may hold: contacts the page saved, and
\* records with any phone or none
SavedContacts ==
  { [phone |-> p, name |-> <<"A", "l">>] :
      p \in {Plus256 \o Local, COUNTRY_CODES[7] \o Local, Plus256 \o <<"+">> \o Local,
              <<"0">> \o Local, <<>>} }
    \cup { [name |-> <<"A", "l">>] }

Forms ==
  [inputSource : {"paste"}, textInput : ListsOf(PhoneTexts)]
    \cup [inputSource : {"csv"}, parsedData : ListsOf(Rows), headerMapping : HeaderMappings]
    \cup [inputSource : {"saved"}, contacts : ListsOf(SavedContacts)]

InitIngest ==
  /\ Mount(0, 0, 0, {0})
  /\ savedLists = NoItem
  /\ given \in Forms
  /\ result = Nothing

Confirm ==
  /\ result = Nothing
  /\ given.inputSource # "saved"
  /\ result' = handleConfirm(given)
  /\ \E now \in Clock, setItemOk \in BOOLEAN :
       savedLists' = autoSave(savedLists, handleConfirm(given), now, setItemOk)
  /\ UNCHANGED <<controller, given>>

LoadSavedList ==
  /\ result = Nothing
  /\ given.inputSource = "saved"
  /\ result' = handleLoadSavedList(given)
  /\ \E now \in Clock, setItemOk \in BOOLEAN :
       savedLists' = autoSave(savedLists, handleLoadSavedList(given), now, setItemOk)
  /\ UNCHANGED <<controller, given>>

NextIngest == Confirm \/ LoadSavedList

SpecIngest == InitIngest /\ [][NextIngest]_vars

\* mergeContactData called as the form calls it: on pasted phones alone, or on
\* the rows of a table with the mapping chosen.  The tables have a column
\* "Tel", a column "Full Name" and, some rows, a column "Phone" that the
\* mapping does not name.
MergeRows ==
  { << [column |-> "Tel", value |-> p], [column |-> "Full Name", value |-> <<"A", "l">>] >> \o other :
      p \in {Plus256 \o Local, <<"0">> \o Local, <<"a", "b", "c">>, <<>>},
      other \in {<<>>} \cup {<<[column |-> "Phone", value |-> q]>> :
                                q \in {<<"a", "b", "c">>, COUNTRY_CODES[7] \o Local}} }

MergeMappings == { [phone |-> "Tel", name |-> "Full Name"], [phone |-> "Tel"] }

InitMerge ==
  /\ Mount(0, 0, 0, {0})
  /\ savedLists = NoItem
  /\ given \in [phones : ListsOf(PhoneTexts) \ {<<>>}, csvData : {<<>>}, headerMapping : {<<>>}]
               \cup [phones : {<<>>}, csvData : ListsOf(MergeRows),
                      headerMapping : MergeMappings]
  /\ result = Nothing

\* lines 100-116
MergePhones ==
  /\ result = Nothing
  /\ given.phones # <<>>
  /\ result' = [of |-> "mergeContactData",
                 value |-> mergeContactData(given.phones, given.csvData, given.headerMapping)]
  /\ UNCHANGED <<controller, savedLists, given>>

\* lines 118-159
MergeTable ==
  /\ result = Nothing
  /\ given.phones = <<>>
  /\ result' = [of |-> "mergeContactData",
                 value |-> mergeContactData(given.phones, given.csvData, given.headerMapping)]
  /\ UNCHANGED <<controller, savedLists, given>>

NextMerge == MergePhones \/ MergeTable

SpecMerge == InitMerge /\ [][NextMerge]_vars

\* ------------------------------------------------------ templateUtils
\* \w of the regular expressions
WordChars ==
  Digits \cup {"_"}
    \cup {"a", "b", "c", "d", "e", "f", "g", "h", "i", "j", "k", "l", "m",
           "n", "o", "p", "q", "r", "s", "t", "u", "v", "w", "x", "y", "z"}
    \cup {"A", "B", "C", "D", "E", "F", "G", "H", "I", "J", "K", "L", "M",
           "N", "O", "P", "Q", "R", "S", "T", "U", "V", "W", "X", "Y", "Z"}

\* [\w\s]
KeyChars == WordChars \cup {" "}

RECURSIVE Join(_)

\* the property name a string of characters spells
Join(chars) == IF chars = <<>> THEN "" ELSE Head(chars) \o Join(Tail(chars))

\* The match of /{{?([\w\s]+)}}?/ that begins at position p of template:
\* where the key begins and ends and where the match ends, or no match.  A
\* second '{' is taken when there is one (what follows it cannot begin the
\* key otherwise), the key is the longest run of key characters (a shorter
\* run is not followed by '}'), a second '}' is taken when there is one.
NoMatch == [found |-> FALSE, from |-> 0, to |-> 0, end |-> 0]

matchAt(template, p) ==
  IF template[p] # "{" THEN NoMatch
  ELSE LET from == IF p + 1 <= Len(template) /\ template[p + 1] = "{" THEN p + 2 ELSE p + 1
           stops == {j \in from..Len(template) : template[j] \notin KeyChars}
           to == IF stops = {} THEN Len(template)
                 ELSE (CHOOSE j \in stops : \A k \in stops : j <= k) - 1
       IN IF to < from \/ to + 1 > Len(template) \/ template[to + 1] # "}" THEN NoMatch
          ELSE [found |-> TRUE, from |-> from, to |-> to,
                end |-> IF to + 2 <= Len(template) /\ template[to + 2] = "}"
                        THEN to + 2 ELSE to + 1]

RECURSIVE keysFrom(_, _)

\* [...template.matchAll(regex)].map(match => match[1].trim()) from position p on
keysFrom(template, p) ==
  IF p > Len(template) THEN <<>>
  ELSE LET m == matchAt(template, p)
       IN IF ~m.found THEN keysFrom(template, p + 1)
          ELSE <<Join(trim(SubSeq(template, m.from, m.to)))>> \o keysFrom(template, m.end + 1)

RECURSIVE unique(_, _)

\* [...new Set(keys)]: the keys not yet seen, in insertion order
unique(keys, seen) ==
  IF keys = <<>> THEN <<>>
  ELSE IF Head(keys) \in seen THEN unique(Tail(keys), seen)
  ELSE <<Head(keys)>> \o unique(Tail(keys), seen \cup {Head(keys)})

\* a variant that returns every key as often as it is written
extractPlaceholders_all(template) ==
  IF Falsy(template) THEN <<>> ELSE keysFrom(template, 1)

extractPlaceholders(template) ==
  IF Falsy(template) THEN <<>> ELSE unique(keysFrom(template, 1), {})

\* a variant that lists the placeholders that are available
validatePlaceholders_present(template, availableFields) ==
  LET placeholders == extractPlaceholders(template)
      missingFields ==
        SelectSeq(placeholders, LAMBDA p : \E j \in DOMAIN availableFields : availableFields[j] = p)
  IN [valid |-> Len(missingFields) = 0, missingFields |-> missingFields]

validatePlaceholders(template, availableFields) ==
  LET placeholders == extractPlaceholders(template)
      missingFields ==
        SelectSeq(placeholders, LAMBDA p : ~\E j \in DOMAIN availableFields : availableFields[j] = p)
  IN [valid |-> Len(missingFields) = 0, missingFields |-> missingFields]

\* Object.keys(contact) of the contacts tried, whose fields were set in this order
ObjectKeys(contact) ==
  SelectSeq(<<"phone", "first_name", "name">>, LAMBDA key : key \in DOMAIN contact)

getAvailableFields(list) == IF Len(list) = 0 THEN <<>> ELSE ObjectKeys(list[1])

\* the properties every object inherits from Object.prototype
ObjectPrototype ==
  {"constructor", "toString", "toLocaleString", "valueOf", "hasOwnProperty",
   "isPrototypeOf", "propertyIsEnumerable", "__proto__", "__defineGetter__",
   "__defineSetter__", "__lookupGetter__", "__lookupSetter__"}

\* String(contact[key]) of an inherited property, its text as one element
InheritedText == <<"function () { [native code] }">>

\* contact[key] for a computed key: own properties first, then the prototype's
lookup(contact, key) ==
  IF key \in DOMAIN contact THEN contact[key]
  ELSE IF key \in ObjectPrototype THEN InheritedText
  ELSE Undefined

RECURSIVE replaceFrom(_, _, _)

\* template.replace(regex, callback) from position p on
replaceFrom(template, p, contact) ==
  IF p > Len(template) THEN <<>>
  ELSE LET m == matchAt(template, p)
       IN IF ~m.found THEN <<template[p]>> \o replaceFrom(template, p + 1, contact)
          ELSE LET trimmedKey == Join(trim(SubSeq(template, m.from, m.to)))
                   value == lookup(contact, trimmedKey)
               IN (IF value # Undefined THEN value ELSE SubSeq(template, p, m.end))
                    \o replaceFrom(template, m.end + 1, contact)

\* contact is an object in every call made here, so !contact is false
renderMessage(template, contact) ==
  IF Falsy(template) THEN <<>>
  ELSE replaceFrom(template, 1, contact)

\* a variant that renders every contact, whatever the count
generatePreview_whole(template, list, count) ==
  IF Falsy(template) THEN <<>>
  ELSE [j \in 1..Len(list) |->
          [phone |-> Get(list[j], "phone"), contact |-> list[j],
           message |-> renderMessage(template, list[j])]]

\* contacts is an array in every call made here, so !contacts is false
generatePreview(template, list, count) ==
  IF Falsy(template) THEN <<>>
  ELSE [j \in 1..Min(count, Len(list)) |->
          [phone |-> Get(list[j], "phone"), contact |-> list[j],
           message |-> renderMessage(template, list[j])]]

\* the page's useMemo
finalMessages(template, list) ==
  IF Len(list) = 0 \/ Falsy(template) THEN <<>>
  ELSE generatePreview(template, list, Len(list))

\* The templates tried: up to MaxPieces pieces of text, placeholders and
\* stray braces, and the two examples of the documentation.
NameKey == <<"n", "a", "m", "e">>

FirstNameKey == <<"f", "i", "r", "s", "t", "_", "n", "a", "m", "e">>

MissingKey == <<"m", "i", "s", "s", "i", "n", "g">>

ConstructorKey == <<"c", "o", "n", "s", "t", "r", "u", "c", "t", "o", "r">>

Hi == <<"H", "i", " ">>

Amara == <<"A", "m", "a", "r", "a">>

Pieces ==
  { Hi, <<",", " ">>, <<"{">>, <<"}">>, <<"{", "{">>, NameKey, <<" ">> \o FirstNameKey \o <<" ">>,
    <<"{">> \o FirstNameKey \o <<"}">>, <<"{", "{">> \o NameKey \o <<"}", "}">>,
    <<"{">> \o MissingKey \o <<"}">>, <<"{">> \o ConstructorKey \o <<"}">>,
    <<"{", " ", "}">> }

RECURSIVE Flatten(_)

Flatten(pieces) == IF pieces = <<>> THEN <<>> ELSE Head(pieces) \o Flatten(Tail(pieces))

\* "Hi {name}, {{name}} again"
ExampleTemplate ==
  Hi \o <<"{">> \o NameKey \o <<"}", ",", " ", "{", "{">> \o NameKey
     \o <<"}", "}", " ", "a", "g", "a", "i", "n">>

Templates ==
  { Flatten(pieces) : pieces \in UNION {[1..n -> Pieces] : n \in 0..MaxPieces} }
    \cup {ExampleTemplate}

TemplateContacts ==
  { [first_name |-> Amara], [first_name |-> Amara, name |-> Amara \o <<" ", "B">>] }

InitTemplate ==
  /\ Mount(0, 0, 0, {0})
  /\ savedLists = NoItem
  /\ given \in [template : Templates, contact : TemplateContacts]
  /\ result = Nothing

CallRenderMessage ==
  /\ result = Nothing
  /\ result' = [of |-> "renderMessage", value |-> renderMessage(given.template, given.contact)]
  /\ UNCHANGED <<controller, savedLists, given>>

CallExtractPlaceholders ==
  /\ result = Nothing
  /\ result' = [of |-> "extractPlaceholders", value |-> extractPlaceholders(given.template)]
  /\ UNCHANGED <<controller, savedLists, given>>

\* the editor validates the template against the fields of the first contact
CallValidatePlaceholders ==
  /\ result = Nothing
  /\ result' = [of |-> "validatePlaceholders",
                 availableFields |-> getAvailableFields(<<given.contact>>),
                 value |-> validatePlaceholders(given.template,
                                                getAvailableFields(<<given.contact>>))]
  /\ UNCHANGED <<controller, savedLists, given>>

NextTemplate == CallRenderMessage \/ CallExtractPlaceholders \/ CallValidatePlaceholders

SpecTemplate == InitTemplate /\ [][NextTemplate]_vars

\* The previews: a template (none, plain text, with placeholders), a working
\* list and a sample size.
PreviewContacts ==
  { [phone |-> Plus256 \o Local, first_name |-> Amara],
    [phone |-> COUNTRY_CODES[7] \o Local, first_name |-> <<"B">>, name |-> <<"B", " ", "C">>],
    [phone |-> COUNTRY_CODES[8] \o Local, name |-> <<>>] }

PreviewTemplates ==
  { <<>>, Hi, Hi \o <<"{">> \o FirstNameKey \o <<"}">>, ExampleTemplate }

InitPreview ==
  /\ Mount(0, 0, 0, {0})
  /\ savedLists = NoItem
  /\ given \in [template : PreviewTemplates, contacts : ListsOf(PreviewContacts),
                 count : 0..(MaxRows + 1)]
  /\ result = Nothing

CallGeneratePreview ==
  /\ result = Nothing
  /\ result' = [of |-> "generatePreview",
                 value |-> generatePreview(given.template, given.contacts, given.count)]
  /\ UNCHANGED <<controller, savedLists, given>>

FinalMessages ==
  /\ result = Nothing
  /\ result' = [of |-> "finalMessages",
                 value |-> finalMessages(given.template, given.contacts)]
  /\ UNCHANGED <<controller, savedLists, given>>

NextPreview == CallGeneratePreview \/ FinalMessages

SpecPreview == InitPreview /\ [][NextPreview]_vars

\* The functions of contactUtils called on a list of contacts.
InitContacts ==
  /\ Mount(0, 0, 0, {0})
  /\ savedLists = NoItem
  /\ given \in [contacts : ListsOf(SavedContacts)]
  /\ result = Nothing

CallValidateContacts ==
  /\ result = Nothing
  /\ result' = [of |-> "validateContacts", value |-> validateContacts(given.contacts)]
  /\ UNCHANGED <<controller, savedLists, given>>

NextContacts == CallValidateContacts

SpecContacts == InitContacts /\ [][NextContacts]_vars

\* formatContactsForSending on validated contacts whose name fields are as a
\* sheet gives them: absent, empty, one word, words parted by a space or a tab,
\* a leading space (the cells of a workbook are not trimmed).
FormatNames ==
  { <<>>, <<"B">>, <<"B", " ", "C">>, <<" ", "B">>, <<"B", "\t", "C">> }

FormatContacts ==
  { [phone |-> Plus256 \o Local] @@ named @@ first @@ last :
      named \in {<<>>} \cup {[name |-> n] : n \in FormatNames},
      first \in {<<>>, [first_name |-> <<>>], [first_name |-> Amara]},
      last \in {<<>>, [last_name |-> <<"Z">>]} }

InitFormat ==
  /\ Mount(0, 0, 0, {0})
  /\ savedLists = NoItem
  /\ given \in [contacts : UNION {[1..n -> FormatContacts] : n \in 0..MaxFormat}]
  /\ result = Nothing

CallFormatContactsForSending ==
  /\ result = Nothing
  /\ result' = [of |-> "formatContactsForSending",
                 value |-> formatContactsForSending(given.contacts)]
  /\ UNCHANGED <<controller, savedLists, given>>

NextFormat == CallFormatContactsForSending

SpecFormat == InitFormat /\ [][NextFormat]_vars

\* --------------------------------------------------------- fileParser
Upper == <<"A", "B", "C", "D", "E", "F", "G", "H", "I", "J", "K", "L", "M", "N", "O", "P", "Q", "R", "S", "T", "U", "V", "W", "X", "Y", "Z">>

Lower == <<"a", "b", "c", "d", "e", "f", "g", "h", "i", "j", "k", "l", "m", "n", "o", "p", "q", "r", "s", "t", "u", "v", "w", "x", "y", "z">>

\* c.toLowerCase() of one character
toLowerCase(c) ==
  IF \E j \in DOMAIN Upper : Upper[j] = c
  THEN Lower[CHOOSE j \in DOMAIN Upper : Upper[j] = c]
  ELSE c

\* s.replace(/[^a-z0-9]/g, '')
alnum(s) == SelectSeq(s, LAMBDA c : c \in Digits \/ \E j \in DOMAIN Lower : Lower[j] = c)

\* String(header).toLowerCase().replace(/[^a-z0-9]/g, '')
normalised(header) == alnum([j \in DOMAIN header |-> toLowerCase(header[j])])

\* s.includes(p)
includes(s, p) ==
  \E a \in 1..(Len(s) - Len(p) + 1) : SubSeq(s, a, a + Len(p) - 1) = p

phonePatterns ==
  << <<"p", "h", "o", "n", "e">>, <<"n", "u", "m", "b", "e", "r">>,
     <<"m", "o", "b", "i", "l", "e">>, <<"c", "o", "n", "t", "a", "c", "t">>,
     <<"t", "e", "l">>, <<"t", "e", "l", "e", "p", "h", "o", "n", "e">>,
     <<"c", "e", "l", "l">>, <<"w", "h", "a", "t", "s", "a", "p", "p">> >>

namePatterns ==
  << <<"n", "a", "m", "e">>, <<"f", "u", "l", "l", "_", "n", "a", "m", "e">>,
     <<"f", "u", "l", "l", "n", "a", "m", "e">>,
     <<"c", "u", "s", "t", "o", "m", "e", "r">>, <<"c", "l", "i", "e", "n", "t">> >>

firstNamePatterns ==
  << <<"f", "i", "r", "s", "t", "_", "n", "a", "m", "e">>,
     <<"f", "i", "r", "s", "t", "n", "a", "m", "e">>, <<"f", "n", "a", "m", "e">>,
     <<"g", "i", "v", "e", "n", "_", "n", "a", "m", "e">>, <<"f", "i", "r", "s", "t">> >>

lastNamePatterns ==
  << <<"l", "a", "s", "t", "_", "n", "a", "m", "e">>,
     <<"l", "a", "s", "t", "n", "a", "m", "e">>, <<"l", "n", "a", "m", "e">>,
     <<"s", "u", "r", "n", "a", "m", "e">>,
     <<"f", "a", "m", "i", "l", "y", "_", "n", "a", "m", "e">>, <<"l", "a", "s", "t">> >>

emailPatterns ==
  << <<"e", "m", "a", "i", "l">>, <<"e", "-", "m", "a", "i", "l">>, <<"m", "a", "i", "l">>,
     <<"e", "m", "a", "i", "l", "_", "a", "d", "d", "r", "e", "s", "s">> >>

locationPatterns ==
  << <<"l", "o", "c", "a", "t", "i", "o", "n">>, <<"a", "d", "d", "r", "e", "s", "s">>,
     <<"c", "i", "t", "y">>, <<"t", "o", "w", "n">>, <<"r", "e", "g", "i", "o", "n">>,
     <<"a", "r", "e", "a">>, <<"c", "o", "u", "n", "t", "r", "y">> >>

namesOfParts ==
  << <<"f", "i", "r", "s", "t">>, <<"l", "a", "s", "t">>, <<"s", "u", "r">> >>

\* patterns.some(p => lower.includes(p.replace(/[^a-z0-9]/g, '')))
matches(lower, patterns) ==
  \E j \in DOMAIN patterns : includes(lower, alnum(patterns[j]))

\* a variant in which a later matching column replaces an earlier one
assign_last(mapping, field, header, hit) ==
  IF hit THEN (field :> header) @@ mapping ELSE mapping

\* if (!mapping[field] && hit) mapping[field] = header
assign(mapping, field, header, hit) ==
  IF Falsy(Get(mapping, field)) /\ hit THEN (field :> header) @@ mapping ELSE mapping

\* the body of headers.forEach
detectHeader(mapping, header) ==
  LET lower == normalised(header)
      m1 == assign(mapping, "phone", header, matches(lower, phonePatterns))
      m2 == assign(m1, "name", header,
                   matches(lower, namePatterns) /\ ~matches(lower, namesOfParts))
      m3 == assign(m2, "first_name", header, matches(lower, firstNamePatterns))
      m4 == assign(m3, "last_name", header, matches(lower, lastNamePatterns))
      m5 == assign(m4, "email", header, matches(lower, emailPatterns))
  IN assign(m5, "location", header, matches(lower, locationPatterns))

RECURSIVE detectFrom(_, _, _)
detectFrom(headers, j, mapping) ==
  IF j > Len(headers) THEN mapping
  ELSE detectFrom(headers, j + 1, detectHeader(mapping, headers[j]))

detectHeaders(headers) == detectFrom(headers, 1, <<>>)

\* The header rows tried: up to MaxColumns column names.
Headers ==
  { <<"P", "h", "o", "n", "e">>, <<"F", "i", "r", "s", "t", " ", "N", "a", "m", "e">>,
     <<"N", "a", "m", "e">>, <<"L", "a", "s", "t", " ", "N", "a", "m", "e">>,
     <<"E", "-", "m", "a", "i", "l">>, <<"S", "u", "r", "n", "a", "m", "e">>,
     <<"C", "i", "t", "y">>, <<"F", "u", "l", "l", "_", "N", "a", "m", "e">>,
     <<"N", "o", "t", "e", "s">>, <<"T", "e", "l", " ", "N", "o", ".">> }

InitHeaders ==
  /\ Mount(0, 0, 0, {0})
  /\ savedLists = NoItem
  /\ given \in [headers : UNION {[1..n -> Headers] : n \in 0..MaxColumns}]
  /\ result = Nothing

CallDetectHeaders ==
  /\ result = Nothing
  /\ result' = [of |-> "detectHeaders", value |-> detectHeaders(given.headers)]
  /\ UNCHANGED <<controller, savedLists, given>>

NextHeaders == CallDetectHeaders

SpecHeaders == InitHeaders /\ [][NextHeaders]_vars

\* The store of contact lists over time: the page saves each working list it
\* sets, the form shows the saved lists and deletes the one clicked.  The item
\* is absent or unreadable at first; a write may fail.
WorkingLists ==
  { formatContactsForSending(<<[phone |-> Plus256 \o Local, name |-> <<"A", "l">>]>>),
    formatContactsForSending(<<[phone |-> Plus256 \o Local, name |-> <<"A", "l">>],
                               [phone |-> COUNTRY_CODES[7] \o Local]>>) }

InitStorage ==
  /\ Mount(0, 0, 0, {0})
  /\ savedLists \in {NoItem, CorruptItem}
  /\ given = Nothing
  /\ result = Nothing

\* part_000 77-80: saveContactsToStorage(formatted, `Auto-save ${time}`)
SaveContacts ==
  \E list \in WorkingLists, now \in Clock, setItemOk \in BOOLEAN :
    LET name == "Auto-save " \o now.time
        returned == saveContactsToStorage(savedLists, list, name, now.timestamp, setItemOk)
    IN /\ Len(parse(savedLists)) < MaxSaved
       /\ given' = [of |-> "saveContactsToStorage", contacts |-> list, name |-> name,
                     timestamp |-> now.timestamp, index |-> 0, setItemOk |-> setItemOk]
       /\ result' = [of |-> "saveContactsToStorage", value |-> returned.value,
                      shown |-> <<>>]
       /\ savedLists' = returned.item
       /\ UNCHANGED controller

\* part_001 210-212: deleteContactList(index), then the form reloads its lists
DeleteSavedList ==
  \E index \in 0..(MaxSaved - 1), setItemOk \in BOOLEAN :
    LET returned == deleteContactList(savedLists, index, setItemOk)
    IN /\ given' = [of |-> "deleteContactList", contacts |-> <<>>, name |-> "",
                     timestamp |-> "", index |-> index, setItemOk |-> setItemOk]
       /\ result' = [of |-> "deleteContactList", value |-> returned.value,
                      shown |-> loadContactsFromStorage(returned.item)]
       /\ savedLists' = returned.item
       /\ UNCHANGED controller

\* part_001 32-36: the form shows the saved lists
ShowSavedLists ==
  /\ given' = [of |-> "loadContactsFromStorage", contacts |-> <<>>, name |-> "",
                timestamp |-> "", index |-> 0, setItemOk |-> TRUE]
  /\ result' = [of |-> "loadContactsFromStorage", value |-> TRUE,
                 shown |-> loadContactsFromStorage(savedLists)]
  /\ UNCHANGED <<controller, savedLists>>

NextStorage == SaveContacts \/ DeleteSavedList \/ ShowSavedLists

SpecStorage == InitStorage /\ [][NextStorage]_vars

\* ------------------------------------------------------------- claims
Completed == ~sending /\ progress.sent + progress.failed = progress.total

CountWhere(seq, Test(_)) == Cardinality({j \in DOMAIN seq : Test(seq[j])})

\* C1: in every state the progress record satisfies
\* sent + failed + pending = total, total being the number of contacts.
C1_ProgressSum ==
  /\ progress.sent + progress.failed + progress.pending = progress.total
  /\ progress.total = Len(contacts)

C1_Witness == progress.sent > 0 /\ progress.failed > 0 /\ progress.pending > 0

\* C2: the first contact a start hands to the transport is the one at index
\* sent + failed of the progress shown when Start is clicked, and a click on
\* Pause/Resume changes no invocation's next index.
C2_ResumeIndex ==
  [][/\ (nLoops' # nLoops /\ Len(calls') > Len(calls))
          => calls'[Len(calls) + 1].index = progress.sent + progress.failed
     /\ (sending' /\ paused' # paused)
          => \A l \in DOMAIN loops : loops'[l].i = loops[l].i]_vars

C2_Witness ==
  /\ \E j \in DOMAIN calls : calls[j].loop = 2 /\ calls[j].index > 0
  /\ \E j \in DOMAIN log : log[j].message = <<"Sending paused by user">>

\* C3: no contact index is handed to the transport more than once.
C3_NoReattempt ==
  \A j, k \in DOMAIN calls : j # k => calls[j].index # calls[k].index

\* C4: a single worker drives the transport: once a later invocation of
\* handleStart has made a transport call, no earlier invocation makes one.
C4_SingleWorker ==
  \A j, k \in DOMAIN calls : j < k => calls[j].loop <= calls[k].loop

\* C5: an invocation that was waiting when Stop was clicked makes no further
\* transport call.
C5_NoCallAfterStop == \A j \in DOMAIN calls : ~calls[j].afterStop

\* C6: one value of sent triggers at most one cooldown, and only a positive
\* multiple of 20 triggers one.
C6_CooldownOnce ==
  /\ \A j \in DOMAIN cooldowns :
       cooldowns[j].sent > 0 /\ cooldowns[j].sent % CooldownInterval = 0
  /\ \A j, k \in DOMAIN cooldowns : j # k => cooldowns[j].sent # cooldowns[k].sent

IsSent(e) == e.status = "sent"

IsSummary(e) == e.phone = SYSTEM /\ e.message[1] = "Batch complete"

\* C7: the batch of 25 contacts, every open succeeding and the report stored,
\* ends with sent = 25, failed = 0, pending = 0, one cooldown (after the 20th
\* success), the controller completed, and one report whose log holds 25
\* 'sent' entries and one summary entry.
C7_EndToEnd ==
  (loops[1].pc = "done" /\ faultsLeft = BatchFaults /\ ~storeFailed)
    => /\ progress = [sent |-> BatchContacts, failed |-> 0, pending |-> 0,
                      total |-> BatchContacts]
       /\ Len(cooldowns) = 1 /\ cooldowns[1].sent = CooldownInterval
       /\ Completed
       /\ Len(reports) = 1
       /\ CountWhere(reports[1].log, IsSent) = BatchContacts
       /\ CountWhere(reports[1].log, IsSummary) = 1

\* C8: when an invocation has attempted every contact (and the store took the
\* report), the controller is not sending, exactly one report of a finished
\* batch is stored, it carries the final totals and the log of the run (with
\* the outcome of the last contact), and the log holds one summary entry.
C8_Completion ==
  \A l \in DOMAIN loops :
    (loops[l].pc = "done" /\ loops[l].sent + loops[l].failed = Len(contacts)
       /\ ~storeFailed)
    => /\ ~sending
       /\ \E r \in DOMAIN reports :
            /\ reports[r].sent = loops[l].sent /\ reports[r].failed = loops[l].failed
            /\ \E e \in DOMAIN reports[r].log :
                 /\ reports[r].log[e].phone = contacts[Len(contacts)]
                 /\ reports[r].log[e].status \in {"sent", "failed"}
            /\ \A q \in DOMAIN reports :
                 reports[q].sent + reports[q].failed = Len(contacts) => q = r
       /\ CountWhere(log, IsSummary) = 1

\* C9: a click on Start when the controller is completed changes nothing:
\* no transport call, no log entry, no report, the same progress and flags.
C9_StartWhenCompleted ==
  [][(Completed /\ (ClickStart \/ ClickStartDisabled))
       => UNCHANGED <<sending, paused, progress, log, sendingRef, pausedRef,
                      reports, loops, calls, cooldowns>>]_vars

C9_Witness == Completed /\ progress.total > 0 /\ ignored

\* C10: with an empty list, or lists of different lengths, the controller
\* stays idle: no invocation gets past the guard, no transport call, and
\* progress and log stay as they were.
C10_StartGuard ==
  (Len(contacts) = 0 \/ Len(messages) = 0 \/ Len(contacts) # Len(messages))
    => /\ nLoops = 0 /\ ~sending /\ calls = <<>>
       /\ log = <<>> /\ progress = InitialProgress(Len(contacts))

StopIssued == \E k \in DOMAIN loops : loops[k].stopped

IsFailure(c) == c.outcome # "ok"

\* C11: a failed attempt (the open returns null or throws, or the message is
\* missing) counts as one failed unit and the loop goes on: as long as no Stop
\* was clicked, an invocation's failed counter is the number of its failed
\* attempts, and an invocation that has returned has sent + failed = total.
C11_FailureGoesOn ==
  ~StopIssued
    => \A l \in DOMAIN loops :
         /\ loops[l].pc = "done" => loops[l].sent + loops[l].failed = Len(contacts)
         /\ loops[l].pc # "none"
              => loops[l].failed = CountWhere(calls, IsFailure)
                                     + (IF loops[l].i > Len(messages)
                                        THEN loops[l].i - Len(messages) ELSE 0)

C11_Witness ==
  /\ ~StopIssued /\ loops[1].pc = "done"
  /\ \E j, k \in DOMAIN calls : j < k /\ calls[j].outcome # "ok" /\ calls[k].outcome = "ok"

C13_StopEndsWait ==
  \A l \in DOMAIN loops :
    (Waiting(loops[l]) /\ loops[l].stopped /\ ~sendingRef) => loops[l].due <= TickDelay

\* the next transport call of the same invocation, if there is one
NextCallOf(j, k) ==
  /\ j < k /\ calls[k].loop = calls[j].loop
  /\ \A q \in DOMAIN calls : (j < q /\ q < k) => calls[q].loop # calls[j].loop

\* C14: between two consecutive transport calls of an invocation there is one
\* pacing wait, whatever the outcome of the earlier call, and no pacing wait
\* follows the call of the last contact.
C14_PacingBetweenCalls ==
  /\ \A j, k \in DOMAIN calls :
       NextCallOf(j, k) => calls[k].pacings = calls[j].pacings + 1
  /\ \A j \in DOMAIN calls :
       calls[j].index = Len(contacts) - 1
         => loops[calls[j].loop].pacings = calls[j].pacings

\* C15: the log never holds more than 100 entries, and a step that appends k
\* entries puts them in front of the entries already there, which keep their
\* order and lose only their oldest: appending one entry to a log of 100
\* keeps its first 99 behind the new entry.
C15_LogCap ==
  [][/\ Len(log') <= LogKeep + 1
     /\ \E k \in 0..3 :
          /\ Len(log') = Min(Len(log) + k, LogKeep + 1)
          /\ SubSeq(log', k + 1, Len(log')) = SubSeq(log, 1, Len(log') - k)]_vars

C15_Witness ==
  /\ Len(log) = LogKeep + 1
  /\ \A j \in DOMAIN log : log[j].message[1] # "Starting bulk send"
  /\ \E j \in DOMAIN log : log[j].message[1] = "Batch complete"

\* C16: once a start is accepted, with no Stop, every pause followed by a
\* resume and every due timer fired, the run reaches Completed: not sending
\* and sent + failed = total.
C16_RunCompletes == (nLoops > 0) ~> Completed

C16_Witness ==
  /\ nLoops > 0 /\ Completed /\ progress.failed > 0
  /\ \E j \in DOMAIN log : log[j].message = <<"Resuming...">>

IsResultOf(name) == result # Nothing /\ result.of = name

\* the characters of s but the '+' that are not its first character
RefStrip(s) ==
  LET kept == SelectSeq(s, LAMBDA c : c \in Digits \/ c = "+")
  IN IF kept = <<>> THEN kept
     ELSE <<Head(kept)>> \o SelectSeq(Tail(kept), LAMBDA c : c \in Digits)

RefNormalize(raw, cc) ==
  LET stripped == RefStrip(raw)
      phone == IF startsWith(stripped, <<"+">>) THEN stripped
               ELSE IF startsWith(stripped, <<"0">>) THEN cc \o Tail(stripped)
               ELSE cc \o stripped
      digits == Len(SelectSeq(phone, LAMBDA c : c \in Digits))
  IN IF startsWith(stripped, <<"+">>) /\ ~hasValidCode(stripped) THEN Null
     ELSE IF digits < MinDigits \/ digits > MaxDigits THEN Null
     ELSE phone

\* C18: normalizePhone returns what the reference gives: the digits of the
\* input with its leading '+' only, null for a '+' number without a supported
\* country code, otherwise one leading 0 taken off and the default code put in
\* front, null when the digits are fewer than 7 or more than 15; so
\* "0712345678" with "+256" gives "+256712345678" and "abc" gives null.
C18_NormalizeReference ==
  IsResultOf("normalizePhone")
    => result.value = RefNormalize(given.phone, given.defaultCountryCode)

DigitCount(s) == Len(SelectSeq(s, LAMBDA c : c \in Digits))

\* every character after the first is a digit
DigitsAfterPlus(s) == \A j \in 2..Len(s) : s[j] \in Digits

\* C19: validatePhone is true exactly for a phone that starts with a
\* supported country code, has only digits after its leading '+', and has 7
\* to 15 digits.
C19_ValidateIff ==
  IsResultOf("validatePhone")
    => (result.value <=> /\ hasValidCode(given.phone)
                         /\ DigitsAfterPlus(given.phone)
                         /\ DigitCount(given.phone) >= MinDigits
                         /\ DigitCount(given.phone) <= MaxDigits)

Phones(list) == [j \in DOMAIN list |-> Get(list[j], "phone")]

NoRepeat(seq) == \A j, k \in DOMAIN seq : j # k => seq[j] # seq[k]

RECURSIVE FirstOccurrences(_, _)

\* the records of list from index j on whose phone no earlier record has
FirstOccurrences(list, j) ==
  IF j > Len(list) THEN <<>>
  ELSE (IF \A i \in 1..(j - 1) : Get(list[i], "phone") # Get(list[j], "phone")
        THEN <<list[j]>> ELSE <<>>) \o FirstOccurrences(list, j + 1)

\* C20: deduplicateContacts returns the records that are the first of their
\* phone, unaltered and in their order: no phone twice, and every record whose
\* phone no earlier record has is kept.
C20_DedupeFirstOccurrences ==
  IsResultOf("handleContactsLoaded")
    => /\ result.deduplicated = FirstOccurrences(result.loadedContacts, 1)
       /\ NoRepeat(Phones(result.deduplicated))

\* a record without its error field
WithoutError(record) == [key \in DOMAIN record \ {"error"} |-> record[key]]

IsIn(record, list) == \E j \in DOMAIN list : list[j] = record

RECURSIVE RefRender(_, _, _)

\* template from position p on, each placeholder whose field the contact has
\* replaced by the field's value, everything else as it is
RefRender(template, p, contact) ==
  IF p > Len(template) THEN <<>>
  ELSE LET m == matchAt(template, p)
           field == Join(trim(SubSeq(template, m.from, m.to)))
       IN IF m.found /\ field \in DOMAIN contact
          THEN contact[field] \o RefRender(template, m.end + 1, contact)
          ELSE IF m.found
          THEN SubSeq(template, p, m.end) \o RefRender(template, m.end + 1, contact)
          ELSE <<template[p]>> \o RefRender(template, p + 1, contact)

\* C22: renderMessage puts the field's value in the place of every
\* placeholder ({key} or {{key}}, blanks around the key ignored) whose field
\* the contact has, and leaves a placeholder whose field the contact does not
\* have as it is written: "Hi {first_name}" gives "Hi Amara", "Hi {missing}"
\* stays "Hi {missing}".
C22_RenderReference ==
  IsResultOf("renderMessage") => result.value = RefRender(given.template, 1, given.contact)

\* the placeholder that begins at position p of template: p is not inside an
\* earlier placeholder
IsToken(template, p) ==
  /\ matchAt(template, p).found
  /\ \A q \in 1..(p - 1) : matchAt(template, q).found => matchAt(template, q).end < p

FieldAt(template, p) ==
  Join(trim(SubSeq(template, matchAt(template, p).from, matchAt(template, p).to)))

\* where a field is first named
FirstAt(template, field) ==
  CHOOSE p \in DOMAIN template :
    /\ IsToken(template, p) /\ FieldAt(template, p) = field
    /\ \A q \in 1..(p - 1) : IsToken(template, q) => FieldAt(template, q) # field

\* C23: extractPlaceholders returns the fields named by the placeholders of
\* the template ({key} or {{key}}, blanks around the key taken off), each
\* once, in the order in which they are first named; "Hi {name}, {{name}}
\* again" gives ["name"].
C23_ExtractPlaceholders ==
  IsResultOf("extractPlaceholders")
    => LET names == result.value
           template == given.template
       IN /\ NoRepeat(names)
          /\ {names[j] : j \in DOMAIN names}
               = {FieldAt(template, p) : p \in {q \in DOMAIN template : IsToken(template, q)}}
          /\ \A j, k \in DOMAIN names :
               j < k => FirstAt(template, names[j]) < FirstAt(template, names[k])
          /\ template = ExampleTemplate => names = <<"name">>

C23_Witness ==
  /\ IsResultOf("extractPlaceholders")
  /\ result.value = <<"first_name", "name">>
  /\ Len(keysFrom(given.template, 1)) = 3

\* the first n contacts given, each with its phone, itself and its message
PreviewsOf(n) ==
  /\ Len(result.value) = n
  /\ \A j \in 1..n :
       result.value[j] = [phone |-> given.contacts[j].phone, contact |-> given.contacts[j],
                          message |-> renderMessage(given.template, given.contacts[j])]

\* C24 as stated: generatePreview returns the previews of the first
\* min(count, number of contacts) contacts, and the batch (finalMessages)
\* those of all contacts, so as many as there are contacts.
C24_PreviewAll ==
  /\ IsResultOf("generatePreview") => PreviewsOf(Min(given.count, Len(given.contacts)))
  /\ IsResultOf("finalMessages") => PreviewsOf(Len(given.contacts))

\* C24 amended: with a non-empty template generatePreview returns the
\* previews of the first min(count, number of contacts) contacts and the batch
\* those of all contacts; with an empty template both return the empty list.
C24_PreviewOfTemplate ==
  /\ (IsResultOf("generatePreview") /\ given.template # <<>>)
       => PreviewsOf(Min(given.count, Len(given.contacts)))
  /\ (IsResultOf("finalMessages") /\ given.template # <<>>)
       => PreviewsOf(Len(given.contacts))
  /\ (result # Nothing /\ given.template = <<>>) => result.value = <<>>

C24_Witness ==
  /\ IsResultOf("generatePreview")
  /\ given.template # <<>> /\ given.count = 2 /\ Len(given.contacts) = 3
  /\ result.value[2].message = Hi \o <<"B">>

Whitespace == {" ", "\t"}

\* s without the whitespace at its two ends
Stripped(s) ==
  LET inked == {j \in DOMAIN s : s[j] \notin Whitespace}
  IN IF inked = {} THEN <<>>
     ELSE SubSeq(s, CHOOSE a \in inked : \A j \in inked : a <= j,
                    CHOOSE b \in inked : \A j \in inked : j <= b)

\* the first whitespace-separated token of name
FirstToken(name) ==
  LET s == Stripped(name)
      gaps == {j \in DOMAIN s : s[j] \in Whitespace}
  IN IF gaps = {} THEN s
     ELSE SubSeq(s, 1, (CHOOSE g \in gaps : \A j \in gaps : g <= j) - 1)

\* what follows the first token, without the whitespace around it
Remainder(name) ==
  LET s == Stripped(name)
  IN Stripped(SubSeq(s, Len(FirstToken(name)) + 1, Len(s)))

Finalized(before, after) ==
  LET name == Get(before, "name")
      first_name == Get(before, "first_name")
      last_name == Get(before, "last_name")
  IN /\ Falsy(name) => after.name = Or(first_name, <<>>)
     /\ ~Falsy(name) => after.name = name
     /\ ~Falsy(first_name) => after.first_name = first_name
     /\ ~Falsy(last_name) => after.last_name = last_name
     /\ (Falsy(first_name) /\ ~Falsy(name)) => after.first_name = FirstToken(name)
     /\ (Falsy(last_name) /\ ~Falsy(name)) => Stripped(after.last_name) = Remainder(name)
     /\ (Falsy(first_name) /\ Falsy(name)) => after.first_name = <<"there">>
     /\ after.name # <<>> \/ after.first_name # <<>>

\* C25: formatContactsForSending gives every record its derived fields:
\* name from first_name when name is absent, first_name and last_name the
\* first whitespace-separated token of name and the remainder when they are
\* absent, first_name the generic "there" when name and first_name are both
\* empty, so that name or first_name is non-empty in every record.
C25_Finalize ==
  IsResultOf("formatContactsForSending") =>
    /\ Len(result.value) = Len(given.contacts)
    /\ \A j \in DOMAIN given.contacts : Finalized(given.contacts[j], result.value[j])

Fields == <<"phone", "name", "first_name", "last_name", "email", "location">>

PatternsOf(field) ==
  CASE field = "phone" -> phonePatterns
    [] field = "name" -> namePatterns
    [] field = "first_name" -> firstNamePatterns
    [] field = "last_name" -> lastNamePatterns
    [] field = "email" -> emailPatterns
    [] field = "location" -> locationPatterns

\* the column's name contains one of the field's patterns, case and
\* punctuation ignored
Contains(header, field) ==
  \E j \in DOMAIN PatternsOf(field) :
    includes(normalised(header), alnum(PatternsOf(field)[j]))

\* the column's name contains "first", "last" or "sur"
NamesAPart(header) ==
  \E j \in DOMAIN namesOfParts : includes(normalised(header), namesOfParts[j])

\* the field is mapped to the first column that Fits, to none if there is none
MappedToFirst(field, Fits(_)) ==
  LET fitting == {j \in DOMAIN given.headers : Fits(given.headers[j])}
  IN IF fitting = {} THEN field \notin DOMAIN result.value
     ELSE /\ field \in DOMAIN result.value
          /\ result.value[field] =
               given.headers[CHOOSE j \in fitting : \A k \in fitting : j <= k]

\* C26 as stated: detectHeaders maps each field to the first column whose
\* name contains one of the field's patterns, case and punctuation ignored,
\* and leaves a field that no column matches unmapped.
C26_FirstMatching ==
  IsResultOf("detectHeaders") =>
    \A f \in DOMAIN Fields :
      MappedToFirst(Fields[f], LAMBDA header : Contains(header, Fields[f]))

\* C26 amended: as stated for every field but name; name is mapped to the
\* first column whose name contains one of name's patterns and none of
\* "first", "last" and "sur", and is unmapped if there is no such column.
C26_FirstEligible ==
  IsResultOf("detectHeaders") =>
    \A f \in DOMAIN Fields :
      MappedToFirst(Fields[f],
                    LAMBDA header : /\ Contains(header, Fields[f])
                                    /\ Fields[f] = "name" => ~NamesAPart(header))

C26_Witness ==
  /\ IsResultOf("detectHeaders")
  /\ Len(given.headers) = 3
  /\ normalised(given.headers[1]) = firstNamePatterns[2]
  /\ "name" \in DOMAIN result.value
  /\ result.value["name"] = given.headers[3]
  /\ result.value["first_name"] = given.headers[1]

\* the value of the column mapped to phone
MappedPhone(row) == cell(row, given.headerMapping.phone)

\* the row's phone is present and normalizes to a valid phone
HasPhone(row) ==
  /\ ~Falsy(MappedPhone(row))
  /\ ~Falsy(normalizePhone(MappedPhone(row), DefaultCountryCode))
  /\ validatePhone(normalizePhone(MappedPhone(row), DefaultCountryCode))

\* C27: mergeContactData over the rows of a table gives, in row order, one
\* record for each row whose mapped phone is present and normalizes to a valid
\* phone (the record of that phone) and none for the other rows; over pasted
\* phones alone it gives one record with empty optional fields for each phone
\* that normalizes and none for the others.
C27_MergeRecords ==
  IsResultOf("mergeContactData") =>
    IF given.phones = <<>>
    THEN LET rows == SelectSeq(given.csvData, HasPhone)
         IN /\ Len(result.value) = Len(rows)
            /\ \A j \in DOMAIN rows :
                 result.value[j].phone = normalizePhone(MappedPhone(rows[j]), DefaultCountryCode)
    ELSE LET phones == SelectSeq(given.phones,
                                 LAMBDA p : ~Falsy(normalizePhone(p, DefaultCountryCode)))
         IN /\ Len(result.value) = Len(phones)
            /\ \A j \in DOMAIN phones :
                 result.value[j] =
                   [phone |-> normalizePhone(phones[j], DefaultCountryCode), name |-> <<>>,
                    first_name |-> <<>>, last_name |-> <<>>, email |-> <<>>,
                    location |-> <<>>]

\* the place of a name in a list without repetitions, 0 if it is not there
PlaceIn(names, name) ==
  IF \E j \in DOMAIN names : names[j] = name
  THEN CHOOSE j \in DOMAIN names : names[j] = name
  ELSE 0

\* C28: validatePlaceholders lists as missingFields exactly the extracted
\* placeholders that are not among the available fields, in the order of
\* extraction, and valid is true if and only if that list is empty.
C28_MissingFields ==
  IsResultOf("validatePlaceholders") =>
    LET missing == result.value.missingFields
        extracted == extractPlaceholders(given.template)
        available == {result.availableFields[j] : j \in DOMAIN result.availableFields}
    IN /\ {missing[j] : j \in DOMAIN missing}
            = {extracted[j] : j \in DOMAIN extracted} \ available
       /\ \A j, k \in DOMAIN missing :
            j < k => /\ 0 < PlaceIn(extracted, missing[j])
                     /\ PlaceIn(extracted, missing[j]) < PlaceIn(extracted, missing[k])
       /\ result.value.valid <=> missing = <<>>

C28_Witness ==
  /\ IsResultOf("validatePlaceholders")
  /\ result.value.missingFields = <<"missing", "constructor">>
  /\ Len(extractPlaceholders(given.template)) = 3
  /\ ~result.value.valid

\* the saved lists an item holds: what can be read of it
Collection(item) == IF item.kind = "array" THEN item.value ELSE <<>>

\* list without its entry at the 0-based index, list itself if it has none
WithoutEntry(list, index) ==
  [j \in 1..(Len(list) - (IF index < Len(list) THEN 1 ELSE 0)) |->
     IF j <= index THEN list[j] ELSE list[j + 1]]

\* the entries of before are those of after, in the same places, and after
\* has one more: the list saved, with its name and its timestamp
AppendedOne(before, after) ==
  /\ Len(after) = Len(before) + 1
  /\ \A j \in DOMAIN before : after[j] = before[j]
  /\ after[Len(after)].name = given'.name
  /\ after[Len(after)].timestamp = given'.timestamp
  /\ after[Len(after)].contacts = given'.contacts

\* C29: a save that succeeds appends exactly one entry (name, timestamp,
\* contacts) to the saved lists and leaves every earlier entry as it was,
\* also when a list of that name is there already; the saved lists change in
\* no other way but by deleteContactList removing the entry at its index.
C29_SavedListsImmutable ==
  [][LET before == Collection(savedLists)
         after == Collection(savedLists')
     IN /\ (result'.of = "saveContactsToStorage" /\ result'.value)
             => AppendedOne(before, after)
        /\ after # before
             => \/ result'.of = "saveContactsToStorage" /\ AppendedOne(before, after)
                \/ /\ result'.of = "deleteContactList"
                   /\ after = WithoutEntry(before, given'.index)]_vars

C29_Witness ==
  /\ IsResultOf("saveContactsToStorage")
  /\ result.value
  /\ Len(Collection(savedLists)) = 3
  /\ Collection(savedLists)[3].name = Collection(savedLists)[1].name
  /\ Collection(savedLists)[3].timestamp # Collection(savedLists)[1].timestamp

\* C30: a store that cannot be read is never fatal and counts as empty:
\* loading an absent or unreadable item gives the empty list; saving to and
\* deleting from an unreadable item succeed as on an empty one wherever the
\* write itself does, so that after the save the store holds the list saved
\* and after the delete it is empty.
C30_UnreadableIsEmpty ==
  [][/\ (savedLists.kind # "array" /\ result'.of = "loadContactsFromStorage")
          => result'.shown = <<>>
     /\ (savedLists.kind = "corrupt" /\ given'.setItemOk)
          => /\ result'.of = "saveContactsToStorage"
                  => (result'.value /\ AppendedOne(<<>>, Collection(savedLists')))
             /\ result'.of = "deleteContactList"
                  => (result'.value /\ savedLists' = stringify(<<>>)
                        /\ result'.shown = <<>>)]_vars

\* the phone text of an input record is missing or is no valid phone
BadPhone(text) ==
  \/ Falsy(text)
  \/ Falsy(normalizePhone(text, DefaultCountryCode))
  \/ ~validatePhone(normalizePhone(text, DefaultCountryCode))

\* the input records of the form that are rejected for their phone: the
\* non-blank lines pasted, or the rows of the table, whose phone is bad
RejectedForPhone ==
  IF given.inputSource = "paste"
  THEN Cardinality({j \in DOMAIN given.textInput :
                      trim(given.textInput[j]) # <<>> /\ BadPhone(trim(given.textInput[j]))})
  ELSE Cardinality({j \in DOMAIN given.parsedData :
                      BadPhone(cell(given.parsedData[j], given.headerMapping.phone))})

\* the invalid count of the validation result, none if the handler returned
\* without one
ReportedInvalid ==
  IF IsResultOf("handleContactsLoaded") THEN Len(result.invalid) ELSE 0

\* C31: after pasted lines or table rows went through merge, dedupe and
\* validate, the invalid count of the validation result is the number of
\* input records rejected for their phone: none is dropped unreported.
C31_RejectedAreReported ==
  (result # Nothing /\ given.inputSource # "saved") => ReportedInvalid = RejectedForPhone

\* the log, oldest entry first
Chronicle(entries) == [j \in DOMAIN entries |-> entries[Len(entries) + 1 - j]]

\* the places in the chronicle of the 'sending' entries, the attempts begun
Attempts(entries) ==
  {p \in DOMAIN entries : Chronicle(entries)[p].status = "sending"}

\* the attempts in the order in which they began: the k-th of them
AttemptAt(entries, k) ==
  CHOOSE p \in Attempts(entries) :
    Cardinality({q \in Attempts(entries) : q <= p}) = k

\* the k-th attempt is logged as 'sending', then makes the k-th transport
\* call, for the same phone, then logs what became of it
AttemptInOrder(k) ==
  LET story == Chronicle(log)
      p == AttemptAt(log, k)
  IN /\ k <= Len(calls)
     /\ calls[k].phone = story[p].phone
     /\ calls[k].logged = story[p]
     /\ p < Len(story)
     /\ story[p + 1].phone = story[p].phone
     /\ story[p + 1].status = (IF calls[k].outcome = "ok" THEN "sent" ELSE "failed")
     /\ story[p + 1].message # <<>>

\* every 'sent' and 'failed' entry closes an attempt
OutcomesFollowAttempts ==
  LET story == Chronicle(log)
  IN \A p \in DOMAIN story :
       story[p].status \in {"sent", "failed"}
         => (p > 1 /\ story[p - 1].status = "sending" /\ story[p - 1].phone = story[p].phone)

Attempted(p) == p.sent + p.failed

\* C32: every attempt is a 'sending' entry for the contact's phone, then one
\* transport call, then either sent counted and a 'sent' entry or failed
\* counted and a 'failed' entry with its reason, then the progress set anew:
\* the attempts of a step raise sent + failed of the progress by one each.
C32_AttemptOrder ==
  [][/\ Len(calls') = Cardinality(Attempts(log'))
     /\ \A k \in 1..Cardinality(Attempts(log')) : AttemptInOrder(k)'
     /\ OutcomesFollowAttempts'
     /\ Attempted(progress') - Attempted(progress)
          = Cardinality(Attempts(log')) - Cardinality(Attempts(log))]_vars

\* the state of the controller as the component shows it
State ==
  IF sending THEN (IF paused THEN "Paused" ELSE "Running")
  ELSE IF progress.total > 0 /\ Attempted(progress) = progress.total THEN "Completed"
  ELSE IF nLoops = 0 THEN "Idle"
  ELSE "Stopped"

\* a step along the transitions by pause, stop and completion
PauseStopComplete ==
  \/ State = "Running" /\ ClickPause /\ State' = "Paused"
  \/ State = "Paused" /\ ClickPause /\ State' = "Running"
  \/ State \in {"Running", "Paused"} /\ ClickStop /\ State' = "Stopped"
  \/ /\ State = "Running" /\ State' = "Completed"
     /\ \E l \in 1..MaxClicks : TimerFires(l)

\* a start from one of the states `from`: to Running, or through Running to
\* Completed when the run started has no wait left
StartFrom(from) ==
  State \in from /\ ClickStart /\ State' \in {"Running", "Completed"}

\* C33 as stated: the state of the controller changes only by start from
\* Idle to Running, by pause and resume between Running and Paused, by stop
\* from Running or Paused to Stopped, and from Running to Completed when all
\* contacts are attempted; pause and stop change no other state, and
\* Completed is not entered from Paused.
C33_SpecifiedTransitions ==
  [][State' # State => (StartFrom({"Idle"}) \/ PauseStopComplete)]_vars

\* C33 amended: as stated, and start also leads from Stopped to Running (the
\* run is resumed).
C33_Transitions ==
  [][State' # State => (StartFrom({"Idle", "Stopped"}) \/ PauseStopComplete)]_vars

C33_Witness ==
  /\ State = "Completed"
  /\ nLoops = 2
  /\ StopIssued
  /\ \E j \in DOMAIN log : log[j].message = <<"Sending paused by user">>

\* C34: the reports grow only when a run completes: a report is stored in a
\* step only by an invocation that attempted every contact, so every report
\* stored has sent + failed = total, and a run ended by Stop stores none.
C34_ReportsOnCompletion ==
  [][reports' # reports =>
       /\ Len(reports') = Len(reports) + 1
       /\ SubSeq(reports', 1, Len(reports)) = reports
       /\ Attempted(reports'[Len(reports')]) = reports'[Len(reports')].totalContacts
       /\ State' = "Completed"]_vars

\* the columns the mapping refers to
MappedColumns == {given.headerMapping[f] : f \in DOMAIN given.headerMapping}

\* the record holds, for each field the mapping names, the value of the
\* field's column in the row (the phone normalized), and each other column of
\* the row under its sanitized key, unless that key is a mapped field
RecordOfRow(record, row) ==
  /\ \A f \in DOMAIN given.headerMapping :
       cell(row, given.headerMapping[f]) # Undefined
         => /\ f \in DOMAIN record
            /\ record[f] = IF f = "phone"
                           THEN normalizePhone(cell(row, given.headerMapping[f]),
                                               DefaultCountryCode)
                           ELSE cell(row, given.headerMapping[f])
  /\ \A j \in DOMAIN row :
       (row[j].column \notin MappedColumns
          /\ safeKey(row[j].column) \notin DOMAIN given.headerMapping)
         => /\ safeKey(row[j].column) \in DOMAIN record
            /\ record[safeKey(row[j].column)] = row[j].value

\* C35: in the records mergeContactData makes of the rows of a table (seen
\* where every row gave one, so that record j is of row j) each field the
\* mapping names holds the value of its column, the phone normalized, and
\* every other column is there under its sanitized key, without taking the
\* place of a mapped field.
C35_MappedFieldsKept ==
  (IsResultOf("mergeContactData") /\ given.phones = <<>>
     /\ Len(result.value) = Len(given.csvData))
    => \A j \in DOMAIN given.csvData : RecordOfRow(result.value[j], given.csvData[j])

\* C36: every call of the transport made for index i has the phone of
\* contact i and the message of entry i of the message list, and that entry
\* is the one made for contact i: it carries the phone of contact i.
C36_Aligned ==
  \A k \in DOMAIN calls :
    LET i == calls[k].index + 1
    IN /\ i \in DOMAIN contacts /\ i \in DOMAIN messages
       /\ calls[k].phone = contacts[i]
       /\ calls[k].message = messages[i].message
       /\ messages[i].phone = contacts[i]

\* three contacts opened in one run, the last after a pause and a resume
C36_Witness ==
  /\ Len(contacts) = 3 /\ Len(messages) = 3
  /\ \A i \in 0..2 : \E k \in DOMAIN calls : calls[k].index = i /\ calls[k].loop = 1
  /\ \E j \in DOMAIN log : log[j].message = <<"Resuming...">>
  /\ C36_Aligned

\* C37: between the steps the counters account for the calls of the
\* transport: sent + failed is the number of calls made so far, whichever
\* click started the loop that made them, sent the number of those that gave
\* a window, and sent + failed is at most total.
C37_CountersAreCalls ==
  /\ Attempted(progress) = Len(calls)
  /\ progress.sent = CountWhere(calls, LAMBDA c : c.outcome = "ok")
  /\ Attempted(progress) <= progress.total

\* C38: from one state to the next sent and failed never decrease and
\* pending never increases, whichever of start, pause, resume, stop or a
\* timer made the step.
C38_Monotonic ==
  [][ /\ progress'.sent >= progress.sent
      /\ progress'.failed >= progress.failed
      /\ progress'.pending <= progress.pending ]_vars

\* C39: whenever the controller is not sending and sent + failed is less than
\* total, the Start button is there and enabled; the button is disabled only
\* when every contact has been attempted.
C39_StartAvailable ==
  /\ (~sending /\ Attempted(progress) < progress.total) => (StartRendered /\ ~StartDisabled)
  /\ (StartRendered /\ StartDisabled) => Attempted(progress) = progress.total

====
